---- MODULE Spec2Model ----
(***************************************************************************)
(* Model of the posting package's MVCC read path, list cache protocol,     *)
(* transaction commit-to-skiplist path and incremental rollup worker       *)
(* (posting/mvcc.go), and of the UID list codec (codec/codec.go).          *)
(***************************************************************************)
EXTENDS Integers, Sequences, FiniteSets, Bags, TLC

VARIABLES
    kv,        \* the KV store: set of stored items (all keys, all versions)
    lCache,    \* lCache: key -> slot (none | uint64 sentinel | *List)
    rd,        \* the getNew callers: reader -> local state of the call
    tx,        \* the committing transactions: txn -> state
    maxTs,     \* highest timestamp handed out so far
    pool,      \* IncrRollup.priorityKeys[p].keysPool: bag of batches
    keysCh,    \* IncrRollup.priorityKeys[p].keysCh: sequence of batches
    rp,        \* one ReadPostingList call: its input and its result
    sk,        \* one Txn for ToSkiplist: cache.deltas and txn.sl
    wk,        \* the Process worker: m, sl, ticks, closed, clock
    hist,      \* history of the calls made (observations for the properties)
    cl         \* one pb.List under codec.SetUids, and the call's argument

vars == <<kv, lCache, rd, tx, maxTs, pool, keysCh, rp, sk, wk, hist, cl>>

----------------------------------------------------------------------------
(* Bounds of the model *)

MaxCommits == 1       \* commits a behaviour of Spec performs
MaxReads == 2         \* getNew calls a behaviour of Spec starts
MaxReadTs == 4        \* highest read timestamp a getNew call uses
MaxItems == 3         \* longest short iterator drawn for ReadPostingList
MaxValLen == 2        \* stand-in for the store's per-entry value size limit
MaxKeyLen == 2        \* stand-in for the store's per-entry key size limit
MaxAdds == 2          \* addKeyToBatch calls a behaviour of SpecRollup makes
MaxClock == 10        \* seconds the clock of SpecRollup advances in all
ClockStep == 10       \* seconds the clock advances at a time
StartClock == 100     \* Unix time, in seconds, at the start of SpecRollup
HashSpace == 4        \* number of values of the key hash
MaxUid == 3           \* UIDs of SpecCodec are 1..MaxUid
MaxUidsLen == 2       \* longest uid slice SetUids is called with
MaxFresh == 2         \* buffers the pools of SpecBatch allocate in all
MaxTakes == 2         \* batches the worker of SpecBatch takes in all

(* Program constants *)

BatchSize == 16
ChanCap == 16
DeltaThreshold == 500
DedupSeconds == 10
HandoverEvery == 4
HandoverRetries == 3600
MaxUint64 == 2147483647   \* math.MaxUint64, written as the largest integer of the model
SentinelOne == 1
NanosPerSecond == 1000000000

----------------------------------------------------------------------------
(* Small helpers *)

Max(a, b) == IF a >= b THEN a ELSE b

SetMax(S) == CHOOSE x \in S : \A y \in S : y <= x

SetMin(S) == CHOOSE x \in S : \A y \in S : x <= y

Range(s) == {s[i] : i \in 1..Len(s)}

NoErr == "nil"

----------------------------------------------------------------------------
(* Keys.  A key is a sequence of bytes; its first byte is the prefix byte. *)

ByteSplit == 4

KeyA == <<0, 1>>
KeyB == <<0, 2>>
KeySplit == <<4, 1>>
KeyBad == <<>>

\* x.Parse: fails on a key too short to carry a prefix byte, else exposes
\* HasStartUid.
Parse(key) ==
    IF Len(key) = 0
    THEN [err |-> "ParseError", HasStartUid |-> FALSE]
    ELSE [err |-> NoErr, HasStartUid |-> (key[1] = ByteSplit)]

----------------------------------------------------------------------------
(* Posting lists *)

EmptyPL == [uids |-> {}, add |-> {}, del |-> {}, commitTs |-> 0]

NilList == [isNil |-> TRUE, key |-> <<>>, minTs |-> 0, maxTs |-> 0,
            plist |-> EmptyPL, mutationMap |-> <<>>]

\* l := new(List); l.key = key; l.plist = new(pb.PostingList)
NewListFor(key) == [isNil |-> FALSE, key |-> key, minTs |-> 0, maxTs |-> 0,
                    plist |-> EmptyPL, mutationMap |-> <<>>]

\* A stored payload either fails to unmarshal or is a posting list proto.
BadVal == [ok |-> FALSE, pl |-> EmptyPL]
GoodVal(pl) == [ok |-> TRUE, pl |-> pl]

Item(key, version, meta, val, deleted, discard) ==
    [key |-> key, version |-> version, meta |-> meta, val |-> val,
     deleted |-> deleted, discard |-> discard]

----------------------------------------------------------------------------
(* ReadPostingList *)

\* The state of the loop of ReadPostingList: the list under construction,
\* the iterator position, the deltas consumed, and the outcome once decided.
LoopState(l, pos, deltaCount, done, err) ==
    [l |-> l, pos |-> pos, deltaCount |-> deltaCount, done |-> done, err |-> err]

\* The DELTA case that stores the delta as it was written, unstamped
AddMutation_Unstamped(l, item) ==
    [l EXCEPT !.mutationMap = (item.version :> item.val.pl) @@ @]

\* The DELTA case: unmarshal, stamp the item's version on the delta, store it
\* under that version in the mutation map.
AddMutation(l, item) ==
    LET pl == [item.val.pl EXCEPT !.commitTs = item.version]
    IN [l EXCEPT !.mutationMap = (pl.commitTs :> pl) @@ @]

\* The COMPLETE case once the payload is unmarshalled: the base and minTs.
CompleteCase_NoMinTs(l, item) == [l EXCEPT !.plist = item.val.pl]

CompleteCase(l, item) == [l EXCEPT !.plist = item.val.pl, !.minTs = item.version]

\* One pass of the body of "for it.Valid()".
ReadStep(st, items) ==
    IF st.pos > Len(items)
    THEN [st EXCEPT !.done = TRUE]
    ELSE
      LET item == items[st.pos]
          l1 == [st.l EXCEPT !.maxTs = Max(@, item.version)]
      IN
      IF item.key # st.l.key THEN [st EXCEPT !.done = TRUE]
      ELSE IF item.deleted THEN [st EXCEPT !.l = l1, !.done = TRUE]
      ELSE IF item.meta = "EMPTY"
        THEN [st EXCEPT !.l = [l1 EXCEPT !.minTs = item.version], !.done = TRUE]
      ELSE IF item.meta = "COMPLETE"
        THEN IF ~item.val.ok
             THEN [st EXCEPT !.l = NilList, !.done = TRUE, !.err = "DecodeError"]
             ELSE [st EXCEPT !.l = CompleteCase(l1, item), !.done = TRUE]
      ELSE IF item.meta = "DELTA"
        THEN IF ~item.val.ok
             THEN [st EXCEPT !.l = NilList, !.done = TRUE, !.err = "DecodeError"]
             ELSE IF item.discard
                  THEN [st EXCEPT !.l = AddMutation(l1, item),
                                  !.deltaCount = @ + 1, !.done = TRUE]
                  ELSE [st EXCEPT !.l = AddMutation(l1, item),
                                  !.deltaCount = @ + 1, !.pos = @ + 1]
      ELSE IF item.meta = "SCHEMA"
        THEN [st EXCEPT !.l = NilList, !.done = TRUE, !.err = "SchemaError"]
      ELSE [st EXCEPT !.l = NilList, !.done = TRUE, !.err = "UnexpectedMeta"]

\* Up to n passes of the body, stopping at the first that leaves the loop.
RECURSIVE ReadPasses(_, _, _)
ReadPasses(st, items, n) ==
    IF st.done \/ n = 0 THEN st
    ELSE IF n = 1 THEN ReadStep(st, items)
    ELSE ReadPasses(ReadPasses(st, items, n \div 2), items, n - (n \div 2))

\* "for it.Valid()": a pass per item left, and the one that finds the
\* iterator exhausted.
ReadLoop(st, items) == ReadPasses(st, items, Len(items) + 1)

EnqueuePriority_Ge(deltaCount) ==
    IF deltaCount > 0
    THEN IF deltaCount >= DeltaThreshold THEN 0 ELSE 1
    ELSE -1

\* The deferred function: the priority the key is enqueued at, or -1.
EnqueuePriority(deltaCount) ==
    IF deltaCount > 0
    THEN IF deltaCount > DeltaThreshold THEN 0 ELSE 1
    ELSE -1

ReadResult(l, err, pos, deltaCount, enq) ==
    [l |-> l, err |-> err, pos |-> pos, deltaCount |-> deltaCount, enq |-> enq]

ReadPostingList_NoKeyCheck(key, items, pos) ==
    LET pk == Parse(key) IN
    IF pk.err # NoErr THEN ReadResult(NilList, "ParseError", pos, 0, -1)
    ELSE
      LET st == ReadLoop(LoopState(NewListFor(key), pos, 0, FALSE, NoErr), items)
      IN ReadResult(st.l, st.err, st.pos, st.deltaCount,
                    EnqueuePriority(st.deltaCount))

\* The read whose enqueue runs on the successful return only
ReadPostingList_NoDeferOnError(key, items, pos) ==
    LET pk == Parse(key) IN
    IF pk.err # NoErr THEN ReadResult(NilList, "ParseError", pos, 0, -1)
    ELSE IF pk.HasStartUid THEN ReadResult(NilList, "ErrInvalidKey", pos, 0, -1)
    ELSE
      LET st == ReadLoop(LoopState(NewListFor(key), pos, 0, FALSE, NoErr), items)
      IN ReadResult(st.l, st.err, st.pos, st.deltaCount,
                    IF st.err = NoErr THEN EnqueuePriority(st.deltaCount) ELSE -1)

\* ReadPostingList(key, it): the iterator is the sequence of items it yields
\* and its position.  The result carries the list, the error, the position
\* the iterator is left at, and the priority of the deferred enqueue.
ReadPostingList(key, items, pos) ==
    LET pk == Parse(key) IN
    IF pk.err # NoErr THEN ReadResult(NilList, "ParseError", pos, 0, -1)
    ELSE IF pk.HasStartUid THEN ReadResult(NilList, "ErrInvalidKey", pos, 0, -1)
    ELSE
      LET st == ReadLoop(LoopState(NewListFor(key), pos, 0, FALSE, NoErr), items)
      IN ReadResult(st.l, st.err, st.pos, st.deltaCount,
                    EnqueuePriority(st.deltaCount))

----------------------------------------------------------------------------
(* List.rollup(readTs, split = false): fold the base and the deltas *)

\* The fold of the deltas of mm with a version in vs over the base, in
\* ascending version order, each as (uids \ del) \cup add: a UID is in the
\* result iff the newest delta naming it adds it, or no delta names it and
\* the base holds it.
ApplyDeltas(uids, mm, vs) ==
    LET naming(x) == {v \in vs : x \in mm[v].add \cup mm[v].del}
    IN {x \in uids \cup UNION {mm[v].add : v \in vs} :
          IF naming(x) = {} THEN x \in uids
          ELSE x \in mm[SetMax(naming(x))].add}

Rollup(l, readTs) ==
    LET applied == {v \in DOMAIN l.mutationMap : v <= readTs}
    IN [newMinTs |-> SetMax({l.minTs} \cup applied),
        plist |-> [EmptyPL EXCEPT
                     !.uids = ApplyDeltas(l.plist.uids, l.mutationMap, applied)]]

----------------------------------------------------------------------------
(* incrRollupi.addKeyToBatch *)

Priorities == {0, 1}

\* keysPool.Get(): a batch resting in the pool, or a new empty one (a
\* sync.Pool may hand out a new object although one is pooled).
PoolGet(pl) ==
    {[b |-> b, pooled |-> TRUE] : b \in BagToSet(pl)} \cup {[b |-> <<>>, pooled |-> FALSE]}

PoolTake(pl, g) == IF g.pooled THEN pl (-) SetToBag({g.b}) ELSE pl

\* keysPool.Put(batch).  Empty buffers are interchangeable with new ones, so
\* the pool keeps count of at most one of them.
PoolPut(pl, b) == IF b = <<>> /\ BagIn(b, pl) THEN pl ELSE pl (+) SetToBag({b})

\* The states addKeyToBatch(key, priority) can leave the pool and the channel
\* of that priority in, one per batch Get can return.
AddKeyToBatch(pl, ch, key) ==
    { LET batch == Append(g.b, key)
          rest == PoolTake(pl, g)
      IN IF Len(batch) < BatchSize
         THEN [pool |-> PoolPut(rest, batch), ch |-> ch, got |-> g.b, dropped |-> FALSE]
         ELSE IF Len(ch) < ChanCap
              THEN [pool |-> rest, ch |-> Append(ch, batch), got |-> g.b, dropped |-> FALSE]
              ELSE [pool |-> PoolPut(rest, <<>>), ch |-> ch, got |-> g.b, dropped |-> TRUE]
      : g \in PoolGet(pl) }

----------------------------------------------------------------------------
(* The list cache (lCache): get, set, set-if-present, clear *)

CacheKeys == {KeyA, KeyB, KeySplit, KeyBad}

NoSlot == [kind |-> "none", ts |-> 0, l |-> NilList]
TsSlot(ts) == [kind |-> "ts", ts |-> ts, l |-> NilList]
ListSlot(l) == [kind |-> "list", ts |-> 0, l |-> l]

EmptyCache == [k \in CacheKeys |-> NoSlot]

CacheSet(cache, key, slot) == [cache EXCEPT ![key] = slot]

\* lCache.Set where lCache.SetIfPresent is meant
CacheSetIfPresent_Set(cache, key, slot) == [cache EXCEPT ![key] = slot]

CacheSetIfPresent(cache, key, slot) ==
    IF cache[key].kind = "none" THEN cache ELSE [cache EXCEPT ![key] = slot]

CacheClear(cache) == [k \in DOMAIN cache |-> NoSlot]

----------------------------------------------------------------------------
(* getNew *)

\* copyList: a new List sharing the immutable layer; the mutation map of the
\* copy is nil.
copyList(l) ==
    [isNil |-> FALSE, key |-> l.key, minTs |-> l.minTs, maxTs |-> l.maxTs,
     plist |-> l.plist, mutationMap |-> <<>>]

\* x.AssertTrue(len(l.mutationMap) == 0) in copyList
CopyAssertion(l) == DOMAIN l.mutationMap = {}

HitGuard_AnyTs(l, readTs) == ~l.isNil

\* "l != nil && l.maxTs <= readTs": the cached list can serve this read.
HitGuard(l, readTs) == ~l.isNil /\ l.maxTs <= readTs

\* The probe of the cache at the head of getNew.
Probe(cache, key, readTs) ==
    LET val == cache[key] IN
    IF val.kind = "list"
    THEN IF HitGuard(val.l, readTs)
         THEN [out |-> "hit", seenTs |-> 0, l |-> val.l]
         ELSE [out |-> "newer", seenTs |-> 0, l |-> NilList]
    ELSE IF val.kind = "ts"
         THEN [out |-> "sentinel", seenTs |-> val.ts, l |-> NilList]
         ELSE [out |-> "miss", seenTs |-> 0, l |-> NilList]

\* The items of S (one per version) from version v down to version lo.
RECURSIVE DescFrom(_, _, _)
DescFrom(S, v, lo) ==
    IF v < lo THEN <<>>
    ELSE IF v = lo
         THEN LET at == {x \in S : x.version = v}
              IN IF at = {} THEN <<>> ELSE <<CHOOSE x \in at : TRUE>>
         ELSE LET mid == (v + lo) \div 2
              IN DescFrom(S, v, mid + 1) \o DescFrom(S, mid, lo)

SortDesc(S) ==
    IF S = {} THEN <<>>
    ELSE LET vs == {x.version : x \in S}
         IN DescFrom(S, SetMax(vs), SetMin(vs))

\* txn.NewKeyIterator(key, AllVersions) under a transaction at readTs: the
\* versions of exactly this key that are visible at readTs, newest first.
KeyIterator(store, key, readTs) ==
    SortDesc({it \in store : it.key = key /\ it.version <= readTs})

\* latestTs := itr.Seek(key): the latest version the store holds for the key
\* (it may lie above readTs), 0 when the key has no version.
SeekLatestTs(store, key) ==
    LET vs == {it.version : it \in {x \in store : x.key = key}}
    IN IF vs = {} THEN 0 ELSE SetMax(vs)

NewList_KeepMutations(l, out) ==
    [isNil |-> FALSE, key |-> l.key, minTs |-> out.newMinTs, maxTs |-> l.maxTs,
     plist |-> out.plist, mutationMap |-> l.mutationMap]

\* newList(): the list getNew hands out and installs.
NewList(l, out) ==
    [isNil |-> FALSE, key |-> l.key, minTs |-> out.newMinTs, maxTs |-> l.maxTs,
     plist |-> out.plist, mutationMap |-> <<>>]

InstallGuard_NoSeenTs(readTs, latestTs, seenTs) == readTs >= latestTs

\* "readTs >= latestTs && latestTs >= seenTs"
InstallGuard(readTs, latestTs, seenTs) == readTs >= latestTs /\ latestTs >= seenTs

\* The part of getNew from ReadPostingList to the return: the result of the
\* read, the list and error returned, and the cache after the set-if-present.
GetNewFinish(cache, key, items, readTs, seenTs, latestTs) ==
    LET res == ReadPostingList(key, items, 1) IN
    IF res.err # NoErr
    THEN [res |-> res, ret |-> res.l, err |-> res.err, cache |-> cache]
    ELSE LET out == Rollup(res.l, MaxUint64) IN
         [res |-> res, ret |-> NewList(res.l, out), err |-> NoErr,
          cache |-> IF InstallGuard(readTs, latestTs, seenTs)
                    THEN CacheSetIfPresent(cache, key, ListSlot(NewList(res.l, out)))
                    ELSE cache]

\* The effect of the read of one getNew on the rollup batches.
Enqueued(res, key, pl, ch, pl2, ch2) ==
    IF res.enq \in Priorities
    THEN \E a \in AddKeyToBatch(pl[res.enq], ch[res.enq], key) :
            /\ pl2 = [pl EXCEPT ![res.enq] = a.pool]
            /\ ch2 = [ch EXCEPT ![res.enq] = a.ch]
    ELSE pl2 = pl /\ ch2 = ch

----------------------------------------------------------------------------
(* The parts of the state a specification does not use *)

NoPool == [p \in Priorities |-> EmptyBag]
NoChan == [p \in Priorities |-> <<>>]
NoResult == ReadResult(NilList, NoErr, 0, 0, -1)
NoRp == [key |-> <<>>, items |-> <<>>, pos |-> 0, readTs |-> 0, called |-> FALSE,
         res |-> NoResult, gcalled |-> FALSE, got |-> NilList, gerr |-> NoErr]
NoSk == [deltas |-> <<>>, sl |-> <<>>, built |-> FALSE, err |-> NoErr]
NoWk == [m |-> <<>>, sl |-> {}, ticks |-> 0, closed |-> FALSE, returned |-> FALSE,
         now |-> 0, attempts |-> 0, last |-> {}]
NoHist == <<>>
NoCl == <<>>

----------------------------------------------------------------------------
(* SpecRead: ReadPostingList and an undisturbed getNew on the iterators of *)
(* a bounded family                                                        *)

ItemKinds == {"D", "Dx", "Dbad", "Ddel", "Ddisc", "C", "Cbad", "E", "S", "O", "X"}

DeltaAdd == [EmptyPL EXCEPT !.add = {30}]
DeltaSwap == [EmptyPL EXCEPT !.add = {40}, !.del = {30}]
CompletePL == [EmptyPL EXCEPT !.uids = {10, 20}]

\* The stored item of a kind, for a key, at a version.
KindItem(kind, key, version) ==
    CASE kind = "D" -> Item(key, version, "DELTA", GoodVal(DeltaAdd), FALSE, FALSE)
      [] kind = "Dx" -> Item(key, version, "DELTA", GoodVal(DeltaSwap), FALSE, FALSE)
      [] kind = "Dbad" -> Item(key, version, "DELTA", BadVal, FALSE, FALSE)
      [] kind = "Ddel" -> Item(key, version, "DELTA", GoodVal(DeltaAdd), TRUE, FALSE)
      [] kind = "Ddisc" -> Item(key, version, "DELTA", GoodVal(DeltaAdd), FALSE, TRUE)
      [] kind = "C" -> Item(key, version, "COMPLETE", GoodVal(CompletePL), FALSE, TRUE)
      [] kind = "Cbad" -> Item(key, version, "COMPLETE", BadVal, FALSE, TRUE)
      [] kind = "E" -> Item(key, version, "EMPTY", GoodVal(EmptyPL), FALSE, TRUE)
      [] kind = "S" -> Item(key, version, "SCHEMA", GoodVal(EmptyPL), FALSE, FALSE)
      [] kind = "O" -> Item(key, version, "OTHER", GoodVal(EmptyPL), FALSE, FALSE)
      [] kind = "X" ->
           Item(Append(key, 9), version, "COMPLETE", GoodVal(CompletePL), FALSE, TRUE)

\* The iterator over a sequence of kinds: newest first, the oldest item at
\* version base, consecutive items step versions apart.
ItemsOf(kinds, key, base, step) ==
    [i \in 1..Len(kinds) |->
        KindItem(kinds[i], key, base + step * (Len(kinds) - i))]

KindSeqs(n) == UNION {[1..k -> ItemKinds] : k \in 0..n}

LongRuns == {DeltaThreshold - 1, DeltaThreshold, DeltaThreshold + 1}

LongTails == {<<>>, <<"C">>, <<"Cbad">>, <<"S">>}

LongKinds == {[i \in 1..n |-> "D"] \o t : n \in LongRuns, t \in LongTails}

\* <<oldest version, distance between versions, read timestamp>>
VersionPlans == {<<1, 1, 2>>, <<5, 2, 10>>}

ReadInput(key, items, readTs) == [key |-> key, items |-> items, readTs |-> readTs]

ReadInputs ==
    {ReadInput(k, ItemsOf(ks, k, vp[1], vp[2]), vp[3])
        : k \in {KeyA, KeySplit}, ks \in KindSeqs(MaxItems), vp \in VersionPlans}
    \cup
    {ReadInput(KeyBad, ItemsOf(ks, KeyBad, 1, 1), 2) : ks \in KindSeqs(1)}
    \cup
    {ReadInput(k, ItemsOf(ks, k, 5, 1), MaxUint64)
        : k \in {KeyA, KeySplit}, ks \in LongKinds}

\* Pools a read can find: empty, a batch one key short of full, and the
\* same with the channel full.
FifteenOf(key) == [i \in 1..(BatchSize - 1) |-> IF i % 2 = 0 THEN KeyA ELSE key]

FullBatchOf(key) == [i \in 1..BatchSize |-> key]

ReadPools ==
    {<<NoPool, NoChan>>,
     <<[p \in Priorities |-> SetToBag({FifteenOf(KeyB)})], NoChan>>,
     <<[p \in Priorities |-> SetToBag({FifteenOf(KeyB)})],
       [p \in Priorities |-> [i \in 1..ChanCap |-> FullBatchOf(KeyB)]]>>}

InitRead ==
    /\ \E in \in ReadInputs :
          /\ rp = [NoRp EXCEPT !.key = in.key, !.items = in.items, !.pos = 1,
                               !.readTs = in.readTs]
          /\ kv = Range(in.items)
    /\ \E pc \in ReadPools : pool = pc[1] /\ keysCh = pc[2]
    /\ lCache = EmptyCache
    /\ rd = <<>> /\ tx = <<>> /\ maxTs = 0
    /\ sk = NoSk /\ wk = NoWk /\ hist = NoHist
    /\ cl = NoCl

\* A call of ReadPostingList on the iterator, its deferred enqueue included.
ReadCall ==
    /\ ~rp.called /\ ~rp.gcalled
    /\ LET res == ReadPostingList(rp.key, rp.items, rp.pos) IN
       /\ rp' = [rp EXCEPT !.called = TRUE, !.res = res, !.pos = res.pos]
       /\ Enqueued(res, rp.key, pool, keysCh, pool', keysCh')
    /\ UNCHANGED <<kv, lCache, rd, tx, maxTs, sk, wk, hist, cl>>

\* A call of getNew(key, readTs) that no other caller interleaves with: the
\* probe, the sentinel on a miss, the seek, the read and the install.
GetNewCall ==
    /\ ~rp.called /\ ~rp.gcalled
    /\ LET pr == Probe(lCache, rp.key, rp.readTs)
           c1 == IF pr.out = "miss"
                 THEN CacheSet(lCache, rp.key, TsSlot(SentinelOne)) ELSE lCache
           fin == GetNewFinish(c1, rp.key, KeyIterator(kv, rp.key, rp.readTs),
                               rp.readTs, pr.seenTs, SeekLatestTs(kv, rp.key))
       IN /\ rp' = [rp EXCEPT !.gcalled = TRUE, !.res = fin.res, !.got = fin.ret,
                              !.gerr = fin.err]
          /\ lCache' = fin.cache
          /\ Enqueued(fin.res, rp.key, pool, keysCh, pool', keysCh')
    /\ UNCHANGED <<kv, rd, tx, maxTs, sk, wk, hist, cl>>

NextRead == ReadCall \/ GetNewCall

SpecRead == InitRead /\ [][NextRead]_vars

----------------------------------------------------------------------------
(* Txn.ToSkiplist *)

\* Byte-wise comparison of two keys (the order of sort.Strings).
RECURSIVE LexLess(_, _)
LexLess(a, b) ==
    IF Len(b) = 0 THEN FALSE
    ELSE IF Len(a) = 0 THEN TRUE
    ELSE IF Head(a) # Head(b) THEN Head(a) < Head(b)
    ELSE LexLess(Tail(a), Tail(b))

LexLeq(a, b) == a = b \/ LexLess(a, b)

RECURSIVE SortStrings_Desc(_)
SortStrings_Desc(S) ==
    IF S = {} THEN <<>>
    ELSE LET m == CHOOSE x \in S : \A y \in S : LexLeq(y, x)
         IN <<m>> \o SortStrings_Desc(S \ {m})

\* sort.Strings(keys)
RECURSIVE SortStrings(_)
SortStrings(S) ==
    IF S = {} THEN <<>>
    ELSE LET m == CHOOSE x \in S : \A y \in S : LexLeq(x, y)
         IN <<m>> \o SortStrings(S \ {m})

\* badger.ValidEntry(pstore, k, data): the store's limits on one entry.
ValidEntry(k, data) == Len(k) > 0 /\ Len(k) <= MaxKeyLen /\ Len(data) <= MaxValLen

\* y.KeyWithTs(k, ts): the key followed by the 8 bytes, big-endian, of
\* MaxUint64 - ts.
KeyWithTs(k, ts) ==
    LET n == MaxUint64 - ts
    IN k \o <<0, 0, 0, 0, (n \div 16777216) % 256, (n \div 65536) % 256,
              (n \div 256) % 256, n % 256>>

\* y.ParseKey and y.ParseTs, the two halves of a key with timestamp.
ParseKey(kts) == SubSeq(kts, 1, Len(kts) - 8)

ParseTs(kts) ==
    LET t == SubSeq(kts, Len(kts) - 7, Len(kts))
    IN MaxUint64 - (((t[5] * 256 + t[6]) * 256 + t[7]) * 256 + t[8])

SkipEntry(k, data) == [key |-> KeyWithTs(k, MaxUint64), meta |-> "DELTA", value |-> data]

\* The loop giving up at the first invalid entry
RECURSIVE BuildSkiplist_Abort(_, _)
BuildSkiplist_Abort(keys, deltas) ==
    IF keys = <<>> THEN <<>>
    ELSE LET k == Head(keys)
             data == deltas[k]
         IN IF Len(data) = 0 THEN BuildSkiplist_Abort(Tail(keys), deltas)
            ELSE IF ~ValidEntry(k, data) THEN <<>>
            ELSE <<SkipEntry(k, data)>> \o BuildSkiplist_Abort(Tail(keys), deltas)

\* The loop over the sorted keys: one b.Add per non-empty, valid delta.
RECURSIVE BuildSkiplist(_, _)
BuildSkiplist(keys, deltas) ==
    IF keys = <<>> THEN <<>>
    ELSE LET k == Head(keys)
             data == deltas[k]
         IN (IF Len(data) = 0 \/ ~ValidEntry(k, data)
             THEN <<>>
             ELSE <<SkipEntry(k, data)>>)
            \o BuildSkiplist(Tail(keys), deltas)

\* Txn.ToSkiplist: the skiplist attached to the transaction.
ToSkiplist(deltas) == BuildSkiplist(SortStrings(DOMAIN deltas), deltas)

\* The payload a delta's bytes unmarshal to: a byte below 128 adds that
\* UID, a byte from 128 deletes UID byte - 128, byte 255 does not parse.
Unmarshal(data) ==
    IF 255 \in Range(data) THEN BadVal
    ELSE GoodVal([EmptyPL EXCEPT
                    !.add = {b \in Range(data) : b < 128},
                    !.del = {b - 128 : b \in {x \in Range(data) : x >= 128}}])

\* The store absorbing a committed transaction's skiplist at commitTs.
Handover(store, sl, commitTs) ==
    store \cup {Item(ParseKey(sl[i].key), commitTs, sl[i].meta,
                     Unmarshal(sl[i].value), FALSE, FALSE) : i \in 1..Len(sl)}

----------------------------------------------------------------------------
(* Spec: concurrent getNew callers, committers and ResetCache *)

NumReaders == 2

Readers == 1..NumReaders

Txns == 1..MaxCommits

DataKeys == {KeyA, KeyB}

IdleReader ==
    [pc |-> "idle", key |-> KeyA, readTs |-> 0, seenTs |-> 0, latestTs |-> 0,
     items |-> <<>>, ret |-> NilList, err |-> NoErr, out |-> "none",
     raced |-> 0, after |-> {}, inst |-> "none", dc |-> 0]

\* What the store holds at the start: KeyA has no version or a delta above a
\* snapshot, KeyB a snapshot.
InitChains == {<<>>, <<"D", "C">>}

\* The keys a transaction holds deltas for.
TxnDeltas == {[k \in ks |-> <<30>>] : ks \in {{KeyA}, DataKeys}}

Init ==
    /\ \E ca \in InitChains :
          kv = Range(ItemsOf(ca, KeyA, 1, 1)) \cup Range(ItemsOf(<<"C">>, KeyB, 1, 1))
    /\ lCache = EmptyCache
    /\ rd = [r \in Readers |-> IdleReader]
    /\ \E ds \in [Txns -> TxnDeltas] :
          tx = [t \in Txns |-> [pc |-> "open", deltas |-> ds[t], sl |-> <<>>,
                                commitTs |-> 0, pending |-> {}]]
    /\ maxTs = 2
    /\ pool = NoPool /\ keysCh = NoChan
    /\ rp = NoRp /\ sk = NoSk /\ wk = NoWk
    /\ hist = [reads |-> 0, ucDone |-> {}]
    /\ cl = NoCl

\* No commit whose timestamp is at or below readTs is still being applied.
ReadTsApplied(readTs) ==
    \A t \in Txns : tx[t].pc = "written" => readTs < tx[t].commitTs

\* The read timestamps callers use: the newest version the store starts
\* with, and one above every version of the behaviour's first commits.
ReadTsChoices == {2, MaxReadTs}

\* getNew up to the probe of the cache (on a closed store: the early return).
\* The next call is made by the first caller that is free.
GetNewStart(r, key, readTs, closed) ==
    /\ rd[r].pc \in {"idle", "done"}
    /\ \A q \in 1..(r - 1) : rd[q].pc \notin {"idle", "done"}
    /\ hist.reads < MaxReads
    /\ ReadTsApplied(readTs)
    /\ LET pr == Probe(lCache, key, readTs)
           call == [IdleReader EXCEPT !.key = key, !.readTs = readTs,
                       !.after = {c.ts : c \in {x \in hist.ucDone : x.key = key}}]
       IN rd' = [rd EXCEPT ![r] =
                   IF closed
                   THEN [IdleReader EXCEPT !.pc = "done", !.err = "ErrDBClosed"]
                   ELSE IF pr.out = "hit"
                   THEN IF CopyAssertion(pr.l)
                        THEN [call EXCEPT !.pc = "done", !.out = "hit",
                                          !.ret = copyList(pr.l)]
                        ELSE [call EXCEPT !.pc = "done", !.out = "hit",
                                          !.err = "AssertFailed"]
                   ELSE IF pr.out = "miss"
                   THEN [call EXCEPT !.pc = "miss", !.out = "miss"]
                   ELSE [call EXCEPT !.pc = "seek", !.out = pr.out,
                                     !.seenTs = pr.seenTs]]
    /\ maxTs' = IF closed THEN maxTs ELSE Max(maxTs, readTs)
    /\ hist' = [hist EXCEPT !.reads = @ + 1]
    /\ UNCHANGED <<kv, lCache, tx, pool, keysCh, rp, sk, wk, cl>>

\* lCache.Set(key, uint64(1), 0) after a miss
GetNewSetSentinel(r) ==
    /\ rd[r].pc = "miss"
    /\ lCache' = CacheSet(lCache, rd[r].key, TsSlot(SentinelOne))
    /\ rd' = [rd EXCEPT ![r].pc = "seek"]
    /\ UNCHANGED <<kv, tx, maxTs, pool, keysCh, rp, sk, wk, hist, cl>>

\* NewTransactionAt(readTs), NewKeyIterator and Seek
GetNewSeek(r) ==
    /\ rd[r].pc = "seek"
    /\ rd' = [rd EXCEPT ![r].pc = "read",
                        ![r].items = KeyIterator(kv, rd[r].key, rd[r].readTs),
                        ![r].latestTs = SeekLatestTs(kv, rd[r].key)]
    /\ UNCHANGED <<kv, lCache, tx, maxTs, pool, keysCh, rp, sk, wk, hist, cl>>

\* ReadPostingList, rollup, the guarded SetIfPresent and the return
GetNewRead(r) ==
    /\ rd[r].pc = "read"
    /\ LET me == rd[r]
           fin == GetNewFinish(lCache, me.key, me.items, me.readTs, me.seenTs,
                               me.latestTs)
       IN /\ lCache' = fin.cache
          /\ rd' = [rd EXCEPT ![r].pc = "done", ![r].ret = fin.ret,
                      ![r].items = <<>>,
                      ![r].err = fin.err, ![r].dc = fin.res.deltaCount,
                      ![r].inst =
                          IF fin.err # NoErr THEN "error"
                          ELSE IF ~InstallGuard(me.readTs, me.latestTs, me.seenTs)
                          THEN "declined"
                          ELSE IF lCache[me.key].kind = "none" THEN "absent"
                          ELSE "installed"]
          /\ Enqueued(fin.res, me.key, pool, keysCh, pool', keysCh')
    /\ UNCHANGED <<kv, tx, maxTs, rp, sk, wk, hist, cl>>

\* ResetCache
ResetCache ==
    /\ lCache' = CacheClear(lCache)
    /\ UNCHANGED <<kv, rd, tx, maxTs, pool, keysCh, rp, sk, wk, hist, cl>>

\* Txn.ToSkiplist of a committing transaction (transactions are numbered in
\* the order they start to commit)
TxnToSkiplist(t) ==
    /\ tx[t].pc = "open"
    /\ \A u \in 1..(t - 1) : tx[u].pc # "open"
    /\ tx' = [tx EXCEPT ![t].pc = "sl", ![t].sl = ToSkiplist(tx[t].deltas)]
    /\ UNCHANGED <<kv, lCache, rd, maxTs, pool, keysCh, rp, sk, wk, hist, cl>>

\* The skiplist is handed to the store at a fresh commit timestamp.
TxnHandover(t) ==
    /\ tx[t].pc = "sl"
    /\ kv' = Handover(kv, tx[t].sl, maxTs + 1)
    /\ maxTs' = maxTs + 1
    /\ tx' = [tx EXCEPT ![t].pc = "written", ![t].commitTs = maxTs + 1,
                        ![t].pending = DOMAIN tx[t].deltas]
    /\ UNCHANGED <<lCache, rd, pool, keysCh, rp, sk, wk, hist, cl>>

\* One pass of the loop of Txn.UpdateCachedKeys(commitTs)
TxnUpdateCachedKey(t, key) ==
    /\ tx[t].pc = "written"
    /\ key \in tx[t].pending
    /\ lCache' = CacheSetIfPresent(lCache, key, TsSlot(tx[t].commitTs))
    /\ rd' = [r \in Readers |->
                IF rd[r].key = key /\ rd[r].pc \in {"seek", "read"}
                      /\ rd[r].out = "miss" /\ lCache[key].kind # "none"
                THEN [rd[r] EXCEPT !.raced = tx[t].commitTs]
                ELSE rd[r]]
    /\ IF tx[t].pending = {key}
       THEN /\ tx' = [tx EXCEPT ![t].pc = "done", ![t].pending = {}]
            /\ hist' = [hist EXCEPT !.ucDone =
                          @ \cup {[key |-> k, ts |-> tx[t].commitTs]
                                     : k \in DOMAIN tx[t].deltas}]
       ELSE /\ tx' = [tx EXCEPT ![t].pending = @ \ {key}]
            /\ hist' = hist
    /\ UNCHANGED <<kv, maxTs, pool, keysCh, rp, sk, wk, cl>>

Next ==
    \/ \E r \in Readers, key \in DataKeys, readTs \in ReadTsChoices, closed \in BOOLEAN :
          GetNewStart(r, key, readTs, closed)
    \/ \E r \in Readers : GetNewSetSentinel(r)
    \/ \E r \in Readers : GetNewSeek(r)
    \/ \E r \in Readers : GetNewRead(r)
    \/ ResetCache
    \/ \E t \in Txns : TxnToSkiplist(t)
    \/ \E t \in Txns : TxnHandover(t)
    \/ \E t \in Txns, key \in DataKeys : TxnUpdateCachedKey(t, key)

Spec == Init /\ [][Next]_vars

----------------------------------------------------------------------------
(* SpecTxn: ToSkiplist on the delta maps of a bounded family *)

LongKey == [i \in 1..(MaxKeyLen + 1) |-> 1]

LongVal == [i \in 1..(MaxValLen + 1) |-> 7]

TxnKeys == {<<>>, <<1>>, <<1, 0>>, <<2>>, <<0, 200>>, LongKey}

TxnVals == {<<>>, <<30>>, LongVal}

InitTxn ==
    /\ \E ks \in SUBSET TxnKeys : \E ds \in [ks -> TxnVals] :
          sk = [NoSk EXCEPT !.deltas = ds]
    /\ kv = {} /\ lCache = EmptyCache /\ rd = <<>> /\ tx = <<>> /\ maxTs = 0
    /\ pool = NoPool /\ keysCh = NoChan
    /\ rp = NoRp /\ wk = NoWk /\ hist = NoHist
    /\ cl = NoCl

\* Txn.ToSkiplist: builds the skiplist, attaches it, returns nil.
TxnBuild ==
    /\ ~sk.built
    /\ sk' = [sk EXCEPT !.sl = ToSkiplist(sk.deltas), !.built = TRUE, !.err = NoErr]
    /\ UNCHANGED <<kv, lCache, rd, tx, maxTs, pool, keysCh, rp, wk, hist, cl>>

NextTxn == TxnBuild

SpecTxn == InitTxn /\ [][NextTxn]_vars

----------------------------------------------------------------------------
(* Properties of ToSkiplist (SpecTxn) *)

\* a sorts before b in raw-byte order.
BytesBefore(a, b) ==
    \E n \in 0..Len(b) - 1 :
       /\ n <= Len(a)
       /\ \A j \in 1..n : a[j] = b[j]
       /\ (n = Len(a) \/ a[n + 1] < b[n + 1])

UserKey(e) == SubSeq(e.key, 1, Len(e.key) - 8)

\* The entry is stored at key_with_ts(key, MAX_TS): 8 zero bytes follow the key.
AtMaxTs(e) ==
    /\ Len(e.key) >= 8
    /\ \A j \in (Len(e.key) - 7)..Len(e.key) : e.key[j] = 0

\* The skiplist sl holds exactly one entry per key of ks, in ascending
\* raw-byte order, each at MAX_TS with meta DELTA and the delta as value.
SkiplistOf(sl, ks, deltas) ==
    /\ Len(sl) = Cardinality(ks)
    /\ \A i \in 1..Len(sl) :
          /\ AtMaxTs(sl[i])
          /\ UserKey(sl[i]) \in ks
          /\ sl[i].meta = "DELTA"
          /\ sl[i].value = deltas[UserKey(sl[i])]
    /\ \A i \in 1..Len(sl) : \A j \in 1..Len(sl) :
          i < j => BytesBefore(UserKey(sl[i]), UserKey(sl[j]))

NonEmptyKeys(deltas) == {k \in DOMAIN deltas : Len(deltas[k]) > 0}

\* C5 as stated: after ToSkiplist the skiplist holds exactly one entry per
\* key whose delta is non-empty.
C5_Original ==
    sk.built => SkiplistOf(sk.sl, NonEmptyKeys(sk.deltas), sk.deltas)

\* C5 as amended: after ToSkiplist the skiplist attached to the transaction
\* holds exactly one entry per key whose delta is non-empty and passes the
\* store's valid-entry check, in ascending raw-byte key order, each at
\* key_with_ts(key, MAX_TS) with meta DELTA and the delta bytes as value;
\* keys with an empty or invalid delta produce no entry, and the deltas map
\* is unchanged.
C5_SkiplistShape ==
    [][(~sk.built /\ sk'.built) =>
          /\ sk'.deltas = sk.deltas
          /\ SkiplistOf(sk'.sl,
                        {k \in NonEmptyKeys(sk.deltas) : ValidEntry(k, sk.deltas[k])},
                        sk.deltas)]_vars

\* A skiplist of three entries built from a map that also holds an empty
\* and an oversized delta.
C5_Witness ==
    /\ sk.built
    /\ Len(sk.sl) = 3
    /\ \E k \in DOMAIN sk.deltas : sk.deltas[k] = <<>>
    /\ \E k \in DOMAIN sk.deltas : sk.deltas[k] = LongVal

\* The number of entries of the skiplist under user key k.
EntriesOf(sl, k) == Cardinality({i \in 1..Len(sl) : UserKey(sl[i]) = k})

\* C12: ToSkiplist never fails because of an invalid entry: a delta that
\* fails the store's valid-entry check is skipped, every other non-empty
\* delta is still emitted, the call returns no error, and the skiplist is
\* attached to the transaction.
C12_InvalidEntrySkipped ==
    sk.built =>
       /\ sk.err = NoErr
       /\ \A k \in DOMAIN sk.deltas :
             IF Len(sk.deltas[k]) > 0 /\ ValidEntry(k, sk.deltas[k])
             THEN /\ EntriesOf(sk.sl, k) = 1
                  /\ \E i \in 1..Len(sk.sl) : sk.sl[i] = SkipEntry(k, sk.deltas[k])
             ELSE EntriesOf(sk.sl, k) = 0

\* An invalid delta under a key that sorts between two keys with valid,
\* non-empty deltas, both of which are in the skiplist.
C12_Witness ==
    /\ sk.built
    /\ \E k \in DOMAIN sk.deltas, lo \in DOMAIN sk.deltas, hi \in DOMAIN sk.deltas :
          /\ Len(sk.deltas[k]) > 0 /\ ~ValidEntry(k, sk.deltas[k])
          /\ LexLess(lo, k) /\ LexLess(k, hi)
          /\ EntriesOf(sk.sl, lo) = 1 /\ EntriesOf(sk.sl, hi) = 1

----------------------------------------------------------------------------
(* incrRollupi.Process: the rollup worker *)

RECURSIVE SumBytes(_)
SumBytes(k) == IF k = <<>> THEN 0 ELSE Head(k) + SumBytes(Tail(k))

\* z.MemHash(key): a hash of the key bytes; distinct keys may collide.
MemHash(key) == SumBytes(key) % HashSpace

\* m[hash], 0 when the map has no entry
MapGet(m, h) == IF h \in DOMAIN m THEN m[h] ELSE 0

MapPut(m, h, v) == [x \in (DOMAIN m) \cup {h} |-> IF x = h THEN v ELSE m[x]]

\* time.Now().Unix() and time.Now().UnixNano() (as seconds and nanoseconds)
UnixNow(now) == now

UnixNanoNow(now) == [sec |-> now, nsec |-> 0]

\* "currTs-ts >= int64(10*time.Second)" with currTs in nanoseconds and ts the
\* number the map stores, read as nanoseconds.
CleanupExpired_Seconds(now, ts) == UnixNow(now) - ts >= DedupSeconds

CleanupExpired(now, ts) ==
    LET cur == UnixNanoNow(now)
        tsSec == ts \div NanosPerSecond
        tsNsec == ts % NanosPerSecond
        borrow == IF cur.nsec < tsNsec THEN 1 ELSE 0
    IN cur.sec - tsSec - borrow >= DedupSeconds

\* "currTs-elem < 10": the key was rolled up less than 10 seconds ago.
DedupSkip_Never(currTs, elem) == FALSE

DedupSkip(currTs, elem) == currTs - elem < DedupSeconds

\* The state doRollup works on: the dedup map, the skiplist, the batches
\* (rollupKey reads the key, and the read may enqueue it), and the log of
\* rollupKey invocations.
RollupState(m, sl, pl, ch, log) == [m |-> m, sl |-> sl, pool |-> pl, ch |-> ch, log |-> log]

\* The log of rollupKey invocations: per key the time of the last one, the
\* shortest time between two successive ones, and whether the last failed.
NoLog == [k \in {KeyA, KeyB, KeySplit} |-> [last |-> -1, gap |-> -1, err |-> NoErr]]

Logged(log, key, now, err) ==
    [log EXCEPT ![key] =
        [last |-> now,
         gap |-> IF @.last = -1 THEN @.gap
                 ELSE IF @.gap = -1 THEN now - @.last
                 ELSE IF now - @.last < @.gap THEN now - @.last ELSE @.gap,
         err |-> err]]

\* The kvs of l.Rollup(nil) for a list read at MaxUint64: one COMPLETE, or
\* EMPTY when no UID is left, at the list's new minimum version.
RollupKVs(l) ==
    LET out == Rollup(l, MaxUint64)
    IN {Item(l.key, out.newMinTs,
             IF out.plist.uids = {} THEN "EMPTY" ELSE "COMPLETE",
             GoodVal(out.plist), FALSE, TRUE)}

\* rollupKey(sl, key): GetNoStore(key, MaxUint64), then Rollup, then one
\* sl.Put per kv; an error of the read leaves the skiplist as it is.
RollupKey(st, key, now) ==
    LET res == ReadPostingList(key, KeyIterator(kv, key, MaxUint64), 1)
        logged == [st EXCEPT !.log = Logged(@, key, now, res.err)]
        put == IF res.err # NoErr THEN logged
               ELSE [logged EXCEPT !.sl = @ \cup RollupKVs(res.l)]
    IN IF res.enq \in Priorities
       THEN {[put EXCEPT !.pool[res.enq] = a.pool, !.ch[res.enq] = a.ch]
                : a \in AddKeyToBatch(st.pool[res.enq], st.ch[res.enq], key)}
       ELSE {put}

\* The loop of doRollup from the i-th key of the batch on.
RECURSIVE DoRollupFrom(_, _, _, _)
DoRollupFrom(st, batch, i, now) ==
    IF i > Len(batch) THEN {st}
    ELSE LET hash == MemHash(batch[i])
             currTs == UnixNow(now)
         IN IF DedupSkip(currTs, MapGet(st.m, hash))
            THEN DoRollupFrom(st, batch, i + 1, now)
            ELSE UNION {DoRollupFrom(s2, batch, i + 1, now)
                          : s2 \in RollupKey([st EXCEPT !.m = MapPut(@, hash, currTs)],
                                             batch[i], now)}

\* doRollup(batch, priority): the loop, then the emptied batch goes back to
\* the pool of the priority.
DoRollup(st, batch, priority, now) ==
    {[s2 EXCEPT !.pool[priority] = PoolPut(@, <<>>)]
        : s2 \in DoRollupFrom(st, batch, 1, now)}

\* handover(): what becomes of a non-empty skiplist after failures failed
\* attempts (HandoverRetries failures: given up).
HandoverOutcomes == {0, 1, HandoverRetries - 1, HandoverRetries}

\* pstore.HandoverSkiplist(sl, nil): the store takes the entries of the
\* skiplist; an entry replaces the stored one of the same key and version.
HandoverSkiplist(store, sl) ==
    {i \in store : ~\E j \in sl : j.key = i.key /\ j.version = i.version} \cup sl

\* handover() that keeps the skiplist its attempts failed on
ProcessHandover_Reuse(store, sl, failures) ==
    IF sl = {} THEN [kv |-> store, sl |-> sl, attempts |-> 0]
    ELSE IF failures < HandoverRetries
         THEN [kv |-> HandoverSkiplist(store, sl), sl |-> {}, attempts |-> failures + 1]
         ELSE [kv |-> store, sl |-> sl, attempts |-> HandoverRetries]

\* handover(): nothing for an empty skiplist; otherwise RetryUntilSuccess
\* calls HandoverSkiplist until it succeeds, failures times in vain and
\* HandoverRetries times at most, and the worker goes on with a new skiplist.
ProcessHandover(store, sl, failures) ==
    IF sl = {} THEN [kv |-> store, sl |-> sl, attempts |-> 0]
    ELSE IF failures < HandoverRetries
         THEN [kv |-> HandoverSkiplist(store, sl), sl |-> {}, attempts |-> failures + 1]
         ELSE [kv |-> store, sl |-> {}, attempts |-> HandoverRetries]

----------------------------------------------------------------------------
(* SpecRollup: the worker, the callers of addKeyToBatch, and the clock *)

\* The keys callers add; KeyB comes with the batches of the initial state.
RollupKeys == {KeyA, KeySplit}

RollupPools == {EmptyBag, SetToBag({FifteenOf(KeyB)})}

InitRollup ==
    /\ kv = Range(ItemsOf(<<"D", "C">>, KeyA, 1, 1))
              \cup Range(ItemsOf(<<"C">>, KeyB, 1, 1))
    /\ \E p0 \in RollupPools, p1 \in RollupPools :
          pool = [p \in Priorities |-> IF p = 0 THEN p0 ELSE p1]
    /\ keysCh = NoChan
    /\ wk = [NoWk EXCEPT !.now = StartClock]
    /\ hist = [adds |-> 0, log |-> NoLog]
    /\ lCache = EmptyCache /\ rd = <<>> /\ tx = <<>> /\ maxTs = 0
    /\ rp = NoRp /\ sk = NoSk
    /\ cl = NoCl

\* A reader or the oracle enqueues a key.
CallerAddKey(key, priority) ==
    /\ hist.adds < MaxAdds
    /\ \E a \in AddKeyToBatch(pool[priority], keysCh[priority], key) :
          /\ pool' = [pool EXCEPT ![priority] = a.pool]
          /\ keysCh' = [keysCh EXCEPT ![priority] = a.ch]
    /\ hist' = [hist EXCEPT !.adds = @ + 1]
    /\ UNCHANGED <<kv, lCache, rd, tx, maxTs, rp, sk, wk, cl>>

\* Time passes, ClockStep seconds at a time.
ClockAdvance ==
    /\ wk.now + ClockStep <= StartClock + MaxClock
    /\ wk' = [wk EXCEPT !.now = @ + ClockStep]
    /\ UNCHANGED <<kv, lCache, rd, tx, maxTs, pool, keysCh, rp, sk, hist, cl>>

\* The sync.Pool drops a pooled batch (garbage collection).
PoolEvict(priority) ==
    /\ \E b \in BagToSet(pool[priority]) :
          pool' = [pool EXCEPT ![priority] = @ (-) SetToBag({b})]
    /\ UNCHANGED <<kv, lCache, rd, tx, maxTs, keysCh, rp, sk, wk, hist, cl>>

\* closer.Signal()
CloserClose ==
    /\ ~wk.closed
    /\ wk' = [wk EXCEPT !.closed = TRUE]
    /\ UNCHANGED <<kv, lCache, rd, tx, maxTs, pool, keysCh, rp, sk, hist, cl>>

\* case <-closer.HasBeenClosed(): return
WorkerReturn ==
    /\ wk.closed /\ ~wk.returned
    /\ wk' = [wk EXCEPT !.returned = TRUE]
    /\ UNCHANGED <<kv, lCache, rd, tx, maxTs, pool, keysCh, rp, sk, hist, cl>>

\* case <-cleanupTick.C
CleanupTick ==
    /\ ~wk.returned
    /\ wk' = [wk EXCEPT !.m = [h \in {x \in DOMAIN @ : ~CleanupExpired(wk.now, @[x])}
                                 |-> @[h]]]
    /\ UNCHANGED <<kv, lCache, rd, tx, maxTs, pool, keysCh, rp, sk, hist, cl>>

\* The worker's state after doRollup on a batch it holds.
Rolled(batch, priority, pl, ch) ==
    \E s2 \in DoRollup(RollupState(wk.m, wk.sl, pl, ch, hist.log), batch, priority,
                       wk.now) :
       /\ wk' = [wk EXCEPT !.m = s2.m, !.sl = s2.sl]
       /\ pool' = s2.pool
       /\ keysCh' = s2.ch
       /\ hist' = [hist EXCEPT !.log = s2.log]
       /\ UNCHANGED <<kv, lCache, rd, tx, maxTs, rp, sk, cl>>

\* The receive of a worker that never looks at its closer
RecvP0_AfterReturn ==
    /\ keysCh[0] # <<>>
    /\ Rolled(Head(keysCh[0]), 0, pool, [keysCh EXCEPT ![0] = Tail(@)])

\* case batch := <-ir.priorityKeys[0].keysCh
RecvP0 ==
    /\ ~wk.returned
    /\ keysCh[0] # <<>>
    /\ Rolled(Head(keysCh[0]), 0, pool, [keysCh EXCEPT ![0] = Tail(@)])

\* case batch := <-ir.priorityKeys[1].keysCh (then one limiter tick)
RecvP1 ==
    /\ ~wk.returned
    /\ keysCh[1] # <<>>
    /\ Rolled(Head(keysCh[1]), 1, pool, [keysCh EXCEPT ![1] = Tail(@)])

\* case <-baseTick.C: the partial priority-0 batch, then every 4th tick the
\* handover of the skiplist.
BaseTick ==
    /\ ~wk.returned
    /\ \E g \in PoolGet(pool[0]) :
       \E s2 \in (IF Len(g.b) > 0
                  THEN DoRollup(RollupState(wk.m, wk.sl,
                                            [pool EXCEPT ![0] = PoolTake(@, g)],
                                            keysCh, hist.log),
                                g.b, 0, wk.now)
                  ELSE {RollupState(wk.m, wk.sl,
                                    [pool EXCEPT ![0] = PoolPut(PoolTake(@, g), g.b)],
                                    keysCh, hist.log)}) :
       \E failures \in HandoverOutcomes :
          LET due == (wk.ticks + 1) % HandoverEvery = 0
              h == IF due THEN ProcessHandover(kv, s2.sl, failures)
                   ELSE [kv |-> kv, sl |-> s2.sl, attempts |-> 0]
          IN /\ (~due \/ s2.sl = {}) => failures = 0
             /\ pool' = s2.pool
             /\ keysCh' = s2.ch
             /\ hist' = [hist EXCEPT !.log = s2.log]
             /\ wk' = [wk EXCEPT !.m = s2.m, !.sl = h.sl,
                         !.ticks = (@ + 1) % HandoverEvery,
                         !.attempts = h.attempts,
                         !.last = IF due THEN s2.sl ELSE {}]
             /\ kv' = h.kv
    /\ UNCHANGED <<lCache, rd, tx, maxTs, rp, sk, cl>>

NextRollup ==
    \/ \E key \in RollupKeys, priority \in Priorities : CallerAddKey(key, priority)
    \/ ClockAdvance
    \/ \E priority \in Priorities : PoolEvict(priority)
    \/ CloserClose
    \/ WorkerReturn
    \/ CleanupTick
    \/ RecvP0
    \/ RecvP1
    \/ BaseTick

SpecRollup == InitRollup /\ [][NextRollup]_vars

----------------------------------------------------------------------------
(* Properties of the rollup worker (SpecRollup) *)

\* C6: a Process worker never invokes rollupKey on the same key twice within
\* a 10-second window, whatever the sequence of priority-0 batches,
\* priority-1 batches, base ticks and cleanup ticks.
C6_NoRepeatWithinWindow ==
    \A k \in DOMAIN hist.log :
       hist.log[k].gap = -1 \/ hist.log[k].gap >= DedupSeconds

\* The step removes entries of the dedup map: a cleanup tick that found
\* something to remove (doRollup only adds and overwrites entries).
CleanupRemoves ==
    /\ DOMAIN wk'.m # DOMAIN wk.m
    /\ DOMAIN wk'.m \subseteq DOMAIN wk.m

\* C14: a cleanup tick removes from the dedup map exactly the entries whose
\* last-rollup time is at least 10 seconds before the current time and
\* leaves every younger entry as it is.
C14_CleanupExact ==
    [][CleanupRemoves =>
          wk'.m = [h \in {x \in DOMAIN wk.m : UnixNow(wk.now) - wk.m[x] < DedupSeconds}
                     |-> wk.m[h]]]_vars

----------------------------------------------------------------------------
(* Properties of getNew and the list cache (Spec) *)

Returned(r) == rd[r].pc = "done" /\ rd[r].err = NoErr

\* The step is the read-and-install part of reader r's getNew.
InstallStep(r) == rd[r].pc = "read" /\ rd'[r].pc = "done"

\* C1: a getNew that missed the cache and wrote sentinel 1, whose key a
\* committer then set to the sentinel commitTs, and whose seek returned
\* latestTs < commitTs, declines to install: when it returns, the slot still
\* holds the sentinel commitTs.
C1_SentinelRace ==
    [][\A r \in Readers :
         (/\ InstallStep(r)
          /\ rd[r].out = "miss"
          /\ rd[r].raced > 0
          /\ lCache[rd[r].key] = TsSlot(rd[r].raced)
          /\ rd[r].latestTs < rd[r].raced)
         => lCache'[rd[r].key] = TsSlot(rd[r].raced)]_vars

\* C2: a getNew(key, t) that starts after UpdateCachedKeys(cts) of a
\* transaction holding a delta for key has completed, with t >= cts, never
\* returns a list with max_ts < cts.
C2_NoStaleAfterUpdate ==
    \A r \in Readers :
       Returned(r) =>
          \A cts \in rd[r].after : rd[r].readTs >= cts => rd[r].ret.maxTs >= cts

\* C3: every list getNew(key, t) returns without error has max_ts <= t.
C3_MaxTsBounded ==
    \A r \in Readers : Returned(r) => rd[r].ret.maxTs <= rd[r].readTs

\* A list served from the cache while the store holds a newer version.
C3_Witness ==
    \E r \in Readers :
       /\ Returned(r) /\ rd[r].out = "hit"
       /\ ~rd[r].ret.isNil
       /\ \E it \in kv : it.key = rd[r].key /\ it.version > rd[r].readTs

\* C4: the install step of getNew changes the cache only by replacing the
\* existing slot of its key with a list, and only when readTs >= latestTs and
\* latestTs >= seenTs; a reader below the key's latest version replaces
\* nothing, and a slot that is absent stays absent.
C4_InstallGuarded ==
    [][\A r \in Readers :
         InstallStep(r) =>
            /\ \A k \in CacheKeys \ {rd[r].key} : lCache'[k] = lCache[k]
            /\ lCache[rd[r].key].kind = "none" => lCache'[rd[r].key].kind = "none"
            /\ rd[r].readTs < rd[r].latestTs => lCache' = lCache
            /\ lCache'[rd[r].key] # lCache[rd[r].key] =>
                  /\ rd[r].readTs >= rd[r].latestTs
                  /\ rd[r].latestTs >= rd[r].seenTs
                  /\ lCache'[rd[r].key].kind = "list"
                  /\ lCache'[rd[r].key].l = rd'[r].ret]_vars

\* A reader that passed the guard found its slot gone; another installed.
C4_Witness ==
    /\ \E r \in Readers : Returned(r) /\ rd[r].inst = "absent"
                             /\ lCache[rd[r].key].kind = "none"
    /\ \E r \in Readers : Returned(r) /\ rd[r].inst \in {"installed", "declined"}

\* C10: a list held in the cache has an empty mutation map, and the
\* assertion of copyList has never failed.
C10_CachedListsCollapsed ==
    /\ \A k \in CacheKeys :
          lCache[k].kind = "list" => DOMAIN lCache[k].l.mutationMap = {}
    /\ \A r \in Readers : rd[r].err # "AssertFailed"

\* A list read from a snapshot with a delta above it rests in the cache.
C10_Witness ==
    \E r \in Readers :
       /\ Returned(r) /\ rd[r].inst = "installed" /\ rd[r].dc > 0
       /\ lCache[rd[r].key] = ListSlot(rd[r].ret)

----------------------------------------------------------------------------
(* Properties of ReadPostingList (SpecRead) *)

CountIn(b, k) == Cardinality({i \in DOMAIN b : b[i] = k})

RECURSIVE PoolOccOver(_, _, _)
PoolOccOver(bs, pl, k) ==
    IF bs = {} THEN 0
    ELSE LET b == CHOOSE x \in bs : TRUE
         IN CopiesIn(b, pl) * CountIn(b, k) + PoolOccOver(bs \ {b}, pl, k)

RECURSIVE ChanOcc(_, _)
ChanOcc(ch, k) ==
    IF ch = <<>> THEN 0 ELSE CountIn(Head(ch), k) + ChanOcc(Tail(ch), k)

\* How often key k rests in the batches of priority p (pool and channel).
KeyOcc(p, k) == PoolOccOver(BagToSet(pool[p]), pool[p], k) + ChanOcc(keysCh[p], k)

ReadReturned == rp.called \/ rp.gcalled

\* The step is a call of ReadPostingList (directly or from getNew).
ReadStepTaken == ~ReadReturned /\ ReadReturned'

\* C7: ReadPostingList on a key whose parsed form has HasStartUid returns
\* ErrInvalidKey and a nil list, leaves the iterator where it was and leaves
\* the batch pools and batch channels of both priorities unchanged.
C7_InvalidKeyNoEffect ==
    [][(ReadStepTaken /\ rp'.called /\ Parse(rp.key).err = NoErr
            /\ Parse(rp.key).HasStartUid)
        => (/\ rp'.res.err = "ErrInvalidKey"
            /\ rp'.res.l.isNil
            /\ rp'.pos = rp.pos
            /\ pool' = pool
            /\ keysCh' = keysCh)]_vars

C7_Witness ==
    /\ rp.called
    /\ rp.key = KeySplit
    /\ rp.res.err = "ErrInvalidKey"
    /\ Len(rp.items) > 1
    /\ rp.items[1].meta = "DELTA" /\ rp.items[1].val.ok /\ ~rp.items[1].deleted
    /\ rp.items[1].key = rp.key
    /\ KeyOcc(0, rp.key) = 0 /\ KeyOcc(1, rp.key) = 0

\* The batches of priority p took the key exactly once: the key rests once
\* more in them and no other key moved, or the batch it completed found the
\* channel full and was dropped and its buffer pooled empty.
AddedOnce(p, key) ==
    \/ /\ KeyOcc(p, key)' = KeyOcc(p, key) + 1
       /\ \A k \in CacheKeys \ {key} : KeyOcc(p, k)' = KeyOcc(p, k)
    \/ /\ Len(keysCh[p]) = ChanCap
       /\ keysCh'[p] = keysCh[p]
       /\ \E b \in BagToSet(pool[p]) :
             /\ Len(b) = BatchSize - 1
             /\ pool'[p] = (pool[p] (-) SetToBag({b})) (+) SetToBag({<<>>})

Untouched(p) == pool'[p] = pool[p] /\ keysCh'[p] = keysCh[p]

\* C8: a ReadPostingList call that passed the key check and consumed n DELTA
\* items enqueues nothing when n = 0, adds the key exactly once to a
\* priority-1 batch (priority 0 untouched) when 1 <= n <= 500, and exactly
\* once to a priority-0 batch (priority 1 untouched) when n > 500.
C8_ThresholdEnqueue ==
    [][(ReadStepTaken /\ rp'.res.err \notin {"ParseError", "ErrInvalidKey"})
        => LET n == rp'.res.deltaCount IN
           /\ (n = 0) => (Untouched(0) /\ Untouched(1))
           /\ (n >= 1 /\ n <= 500) => (AddedOnce(1, rp.key) /\ Untouched(0))
           /\ (n > 500) => (AddedOnce(0, rp.key) /\ Untouched(1))]_vars

\* 501 deltas above a COMPLETE were read: the key rests in priority 0 only.
C8_Witness ==
    /\ rp.called
    /\ Len(rp.items) = 502
    /\ rp.items[502].meta = "COMPLETE"
    /\ rp.res.err = NoErr
    /\ rp.res.deltaCount = 501
    /\ KeyOcc(0, rp.key) = 1
    /\ KeyOcc(1, rp.key) = 0

\* The iterator holds n plain deltas of the main key, all visible at the read
\* timestamp, directly above a COMPLETE snapshot of the key.
CleanDelta(it) ==
    it.key = rp.key /\ it.meta = "DELTA" /\ it.val.ok /\ ~it.deleted /\ ~it.discard
        /\ it.version <= rp.readTs

CleanComplete(it) ==
    it.key = rp.key /\ it.meta = "COMPLETE" /\ it.val.ok /\ ~it.deleted
        /\ it.version <= rp.readTs

DeltasAboveSnapshot(n) ==
    /\ Parse(rp.key).err = NoErr /\ ~Parse(rp.key).HasStartUid
    /\ n >= 1 /\ Len(rp.items) > n
    /\ \A i \in 1..n : CleanDelta(rp.items[i])
    /\ CleanComplete(rp.items[n + 1])

\* Scenario C: (v=7, DELTA adding {30}) above (v=5, COMPLETE {10,20}), read at 10.
ScenarioC ==
    /\ rp.key = KeyA /\ rp.readTs = 10
    /\ rp.items = <<Item(KeyA, 7, "DELTA", GoodVal(DeltaAdd), FALSE, FALSE),
                    Item(KeyA, 5, "COMPLETE", GoodVal(CompletePL), FALSE, TRUE)>>

\* C9 as stated: every read of a snapshot at version s with deltas above it
\* returns a list with min_ts = s and max_ts = the highest version seen.
C9_Original ==
    \A n \in 1..Len(rp.items) :
       (ReadReturned /\ DeltasAboveSnapshot(n)) =>
          LET l == IF rp.called THEN rp.res.l ELSE rp.got IN
          /\ ~l.isNil
          /\ l.minTs = rp.items[n + 1].version
          /\ l.maxTs = rp.items[1].version

\* C9 as amended: ReadPostingList returns min_ts = s and max_ts = the highest
\* version seen, the deltas in its mutation map; getNew returns the collapsed
\* list, whose max_ts is the highest version seen and whose min_ts is the
\* new_min_ts of the rollup, the version of the newest delta.  In scenario C
\* the UID set is {10,20,30} and max_ts = 7 for both; min_ts is 5 from
\* ReadPostingList and 7 from getNew.
C9_DeltaChain ==
    /\ \A n \in 1..Len(rp.items) :
          (ReadReturned /\ DeltasAboveSnapshot(n)) =>
             /\ rp.called =>
                   /\ rp.res.err = NoErr
                   /\ rp.res.l.minTs = rp.items[n + 1].version
                   /\ rp.res.l.maxTs = rp.items[1].version
                   /\ DOMAIN rp.res.l.mutationMap = {rp.items[i].version : i \in 1..n}
             /\ rp.gcalled =>
                   /\ rp.gerr = NoErr
                   /\ rp.got.minTs = rp.items[1].version
                   /\ rp.got.maxTs = rp.items[1].version
                   /\ DOMAIN rp.got.mutationMap = {}
    /\ (ReadReturned /\ ScenarioC) =>
          /\ rp.called =>
                /\ rp.res.l.minTs = 5 /\ rp.res.l.maxTs = 7
                /\ rp.res.l.plist.uids = {10, 20}
                /\ rp.res.l.mutationMap[7].add = {30}
                /\ Rollup(rp.res.l, 10).plist.uids = {10, 20, 30}
          /\ rp.gcalled =>
                /\ rp.got.minTs = 7 /\ rp.got.maxTs = 7
                /\ rp.got.plist.uids = {10, 20, 30}

C9_Witness == rp.gcalled /\ ScenarioC /\ rp.got.plist.uids = {10, 20, 30}

----------------------------------------------------------------------------
(* Txn.UpdateCachedKeys as one call, and SpecUpdate: the call on a bounded *)
(* family of caches and transactions                                       *)

\* "for key := range txn.cache.deltas": one SetIfPresent per key.
RECURSIVE UpdateLoop(_, _, _)
UpdateLoop(cache, keys, commitTs) ==
    IF keys = {} THEN cache
    ELSE LET key == CHOOSE k \in keys : TRUE
         IN UpdateLoop(CacheSetIfPresent(cache, key, TsSlot(commitTs)),
                       keys \ {key}, commitTs)

\* A transaction as UpdateCachedKeys sees it: nil, without a cache, or with
\* the deltas of its cache.
NilTxn == [isNil |-> TRUE, cacheNil |-> TRUE, deltas |-> <<>>]
NoCacheTxn == [isNil |-> FALSE, cacheNil |-> TRUE, deltas |-> <<>>]
TxnWith(deltas) == [isNil |-> FALSE, cacheNil |-> FALSE, deltas |-> deltas]

\* txn.UpdateCachedKeys(commitTs): the cache afterwards, and whether
\* x.AssertTrue(commitTs > 0) panicked.
UpdateCachedKeys(cache, txn, commitTs) ==
    IF txn.isNil \/ txn.cacheNil THEN [cache |-> cache, panic |-> FALSE]
    ELSE IF ~(commitTs > 0) THEN [cache |-> cache, panic |-> TRUE]
    ELSE [cache |-> UpdateLoop(cache, DOMAIN txn.deltas, commitTs), panic |-> FALSE]

\* A collapsed list as getNew installs it.
CachedList(key, ts) ==
    [NewListFor(key) EXCEPT !.minTs = ts, !.maxTs = ts, !.plist = CompletePL]

UpdateSlots(key) == {NoSlot, TsSlot(SentinelOne), TsSlot(MaxReadTs), ListSlot(CachedList(key, 2))}

UpdateKeys == {KeyA, KeyB, KeySplit}

UpdateTxns ==
    {NilTxn, NoCacheTxn} \cup {TxnWith([k \in ks |-> <<30>>]) : ks \in SUBSET UpdateKeys}

InitUpdate ==
    /\ \E c \in [CacheKeys -> UNION {UpdateSlots(k) : k \in CacheKeys}] :
          /\ \A k \in CacheKeys : c[k] \in UpdateSlots(k)
          /\ c[KeyBad] = NoSlot
          /\ lCache = c
          /\ hist = [before |-> c, called |-> FALSE, panic |-> FALSE]
    /\ \E txn \in UpdateTxns, commitTs \in 0..MaxCommits + 1 :
          tx = [txn |-> txn, commitTs |-> commitTs]
    /\ kv = {} /\ rd = <<>> /\ maxTs = 0
    /\ pool = NoPool /\ keysCh = NoChan
    /\ rp = NoRp /\ sk = NoSk /\ wk = NoWk
    /\ cl = NoCl

\* A call of txn.UpdateCachedKeys(commitTs)
UpdateCall ==
    /\ ~hist.called
    /\ LET out == UpdateCachedKeys(lCache, tx.txn, tx.commitTs)
       IN /\ lCache' = out.cache
          /\ hist' = [hist EXCEPT !.called = TRUE, !.panic = out.panic]
    /\ UNCHANGED <<kv, rd, tx, maxTs, pool, keysCh, rp, sk, wk, cl>>

NextUpdate == UpdateCall

SpecUpdate == InitUpdate /\ [][NextUpdate]_vars

----------------------------------------------------------------------------
(* Properties of UpdateCachedKeys (SpecUpdate) *)

----------------------------------------------------------------------------
(* codec: pb.List in its two encodings, SetUids, and SpecCodec *)

\* The ascending sequence of the members of a set of UIDs.
RECURSIVE AscFrom(_, _)
AscFrom(S, u) ==
    IF u > MaxUid + 1 THEN <<>>
    ELSE (IF u \in S THEN <<u>> ELSE <<>>) \o AscFrom(S, u + 1)

\* rm.ToArray()
ToArray(bm) == AscFrom(bm, 1)

\* rm.ToBuffer() and rm.ToBufferWithCopy(): the serialized bitmap, a header
\* (here the cardinality) and the members.  The buffer of an empty bitmap
\* is empty or a bare header, as the bitmap library has it (nilEmpty).
ToBuffer(bm, nilEmpty) ==
    IF bm = {} /\ nilEmpty THEN <<>> ELSE <<Cardinality(bm)>> \o ToArray(bm)

\* sroar.FromBuffer(buf)
FromBuffer(buf) == IF buf = <<>> THEN {} ELSE Range(Tail(buf))

\* sroar.NewBitmap() followed by SetMany(uids)
SetMany(uids) == Range(uids)

\* pb.List: the two fields of the UID set.
PbList(sorted, bitmap) == [SortedUids |-> sorted, Bitmap |-> bitmap]

\* ToList(rm)
ToList(bm, nilEmpty) == PbList(<<>>, ToBuffer(bm, nilEmpty))

\* ToSortedList(rm)
ToSortedList(bm) == PbList(ToArray(bm), <<>>)

\* SetUids writing the bitmap whatever the list holds
SetUids_AlwaysBitmap(l, uids, nilEmpty) ==
    [l EXCEPT !.Bitmap = ToBuffer(SetMany(uids), nilEmpty)]

\* SetUids(l, uids)
SetUids(l, uids, nilEmpty) ==
    IF Len(l.SortedUids) > 0
    THEN [l EXCEPT !.SortedUids = uids]
    ELSE [l EXCEPT !.Bitmap = ToBuffer(SetMany(uids), nilEmpty)]

\* GetUids(l) for a non-nil list
GetUids(l) ==
    IF Len(l.SortedUids) > 0 THEN l.SortedUids ELSE ToArray(FromBuffer(l.Bitmap))

Uids == 1..MaxUid

\* The uid slices SetUids is called with.
UidSlices == UNION {[1..n -> Uids] : n \in 0..MaxUidsLen}

InitCodec ==
    /\ \E bm \in SUBSET Uids, form \in {"sorted", "bitmap"}, uids \in UidSlices,
          nilEmpty \in BOOLEAN :
          cl = [l |-> IF form = "sorted" THEN ToSortedList(bm) ELSE ToList(bm, nilEmpty),
                form |-> form, was |-> bm, uids |-> uids, nilEmpty |-> nilEmpty,
                called |-> FALSE]
    /\ kv = {} /\ lCache = EmptyCache /\ rd = <<>> /\ tx = <<>> /\ maxTs = 0
    /\ pool = NoPool /\ keysCh = NoChan
    /\ rp = NoRp /\ sk = NoSk /\ wk = NoWk /\ hist = NoHist

\* A call of SetUids(l, uids)
SetUidsCall ==
    /\ ~cl.called
    /\ cl' = [cl EXCEPT !.l = SetUids(cl.l, cl.uids, cl.nilEmpty), !.called = TRUE]
    /\ UNCHANGED <<kv, lCache, rd, tx, maxTs, pool, keysCh, rp, sk, wk, hist>>

NextCodec == SetUidsCall

SpecCodec == InitCodec /\ [][NextCodec]_vars

----------------------------------------------------------------------------
(* Properties of SetUids (SpecCodec) *)

\* The encoding a list is in: the one field that is populated.
InSortedForm(l) == Len(l.SortedUids) > 0 /\ Len(l.Bitmap) = 0
InBitmapForm(l) == Len(l.Bitmap) > 0 /\ Len(l.SortedUids) = 0

\* C13: set_uids preserves the encoding of every list for every uid slice: a
\* list made in sorted-array form is in sorted-array form afterwards and one
\* made in bitmap form is in bitmap form afterwards, also when the list
\* holds no UIDs or the new slice is empty; exactly one of the two encodings
\* is populated afterwards.
C13_EncodingPreserved ==
    cl.called =>
       /\ cl.form = "sorted" => InSortedForm(cl.l)
       /\ cl.form = "bitmap" => InBitmapForm(cl.l)

\* What holds of the code: a list whose sorted array is non-empty keeps the
\* array form when the new slice is non-empty, and a list in bitmap form
\* given a non-empty slice stays in bitmap form.
C13_NonEmptyPreserved ==
    (cl.called /\ Len(cl.uids) > 0) =>
       /\ (cl.form = "sorted" /\ cl.was # {}) => (InSortedForm(cl.l) /\ cl.l.SortedUids = cl.uids)
       /\ cl.form = "bitmap" => (InBitmapForm(cl.l) /\ GetUids(cl.l) = ToArray(Range(cl.uids)))

----------------------------------------------------------------------------
(* SpecBatch: addKeyToBatch step by step (Get, then append and Put or    *)
(* send), concurrent callers, and the worker taking and returning batches. *)
(* A batch is a buffer with an identity: [id, keys].                       *)

NumCallers == 2

Callers == 1..NumCallers

NoBatch == [id |-> 0, keys |-> <<>>]

Batch(id, keys) == [id |-> id, keys |-> keys]

\* keysPool.Get() that leaves the buffer in the pool
BatchGet_Shared(pl, fresh) ==
    {[b |-> b, rest |-> pl] : b \in pl}
    \cup (IF fresh <= MaxFresh THEN {[b |-> Batch(fresh, <<>>), rest |-> pl]} ELSE {})

\* keysPool.Get(): a pooled buffer, taken out of the pool, or a new one
\* (New: new([][]byte)) with the next identity, of which a behaviour makes
\* MaxFresh.
BatchGet(pl, fresh) ==
    {[b |-> b, rest |-> pl \ {b}] : b \in pl}
    \cup (IF fresh <= MaxFresh THEN {[b |-> Batch(fresh, <<>>), rest |-> pl]} ELSE {})

\* The batch that never sends: it goes back to the pool however long it is
AfterAppend_NoSend(pl, ch, b, key) ==
    [pool |-> pl \cup {Batch(b.id, Append(b.keys, key))}, ch |-> ch, dropped |-> FALSE]

\* addKeyToBatch after the Get: append, then Put, send or drop-and-Put.
AfterAppend(pl, ch, b, key) ==
    LET batch == Batch(b.id, Append(b.keys, key))
    IN IF Len(batch.keys) < BatchSize
       THEN [pool |-> pl \cup {batch}, ch |-> ch, dropped |-> FALSE]
       ELSE IF Len(ch) < ChanCap
            THEN [pool |-> pl, ch |-> Append(ch, batch), dropped |-> FALSE]
            ELSE [pool |-> pl \cup {Batch(batch.id, <<>>)}, ch |-> ch, dropped |-> TRUE]

BatchKeys == {KeyA}

\* The batches the pools and channels start with (identities 100(p + 1) + i, apart from the new buffers' 1, 2, ...):
\* nothing, or a batch one key short of full with the channel one batch
\* short of full, or the same with the channel full.
InitPooled(p, n) == IF n = 0 THEN {} ELSE {Batch(100 * (p + 1) + 99, FifteenOf(KeyB))}

InitQueued(p, n) == [i \in 1..n |-> Batch(100 * (p + 1) + i, FullBatchOf(KeyB))]

IdleCaller == [pc |-> "idle", batch |-> NoBatch, key |-> KeyA, priority |-> 0,
               dropped |-> FALSE, sent |-> FALSE]

IdleWorker == [batch |-> NoBatch, priority |-> 0, busy |-> FALSE]

InitBatch ==
    /\ \E n \in {0, ChanCap - 1, ChanCap} :
          /\ pool = [p \in Priorities |-> InitPooled(p, n)]
          /\ keysCh = [p \in Priorities |-> InitQueued(p, n)]
    /\ rd = [c \in Callers |-> IdleCaller]
    /\ wk = IdleWorker
    /\ hist = [adds |-> 0, fresh |-> 1, takes |-> 0]
    /\ kv = {} /\ lCache = EmptyCache /\ tx = <<>> /\ maxTs = 0
    /\ rp = NoRp /\ sk = NoSk /\ cl = NoCl

\* batch := rki.keysPool.Get()
BatchCallerGet(c, key, priority) ==
    /\ rd[c].pc = "idle"
    /\ hist.adds < MaxAdds
    /\ \E g \in BatchGet(pool[priority], hist.fresh) :
          /\ pool' = [pool EXCEPT ![priority] = g.rest]
          /\ rd' = [rd EXCEPT ![c] = [IdleCaller EXCEPT !.pc = "got", !.batch = g.b,
                                         !.key = key, !.priority = priority]]
          /\ hist' = [hist EXCEPT !.adds = @ + 1,
                                  !.fresh = IF g.b.id = @ THEN @ + 1 ELSE @]
    /\ UNCHANGED <<kv, lCache, tx, maxTs, keysCh, rp, sk, wk, cl>>

\* The rest of addKeyToBatch: the append and what becomes of the batch.
BatchCallerPut(c) ==
    /\ rd[c].pc = "got"
    /\ LET p == rd[c].priority
           out == AfterAppend(pool[p], keysCh[p], rd[c].batch, rd[c].key)
       IN /\ pool' = [pool EXCEPT ![p] = out.pool]
          /\ keysCh' = [keysCh EXCEPT ![p] = out.ch]
          /\ rd' = [rd EXCEPT ![c].pc = "idle", ![c].batch = NoBatch,
                              ![c].dropped = out.dropped,
                              ![c].sent = (out.ch # keysCh[p])]
    /\ UNCHANGED <<kv, lCache, tx, maxTs, rp, sk, wk, hist, cl>>

\* case batch := <-ir.priorityKeys[p].keysCh
BatchWorkerRecv(priority) ==
    /\ ~wk.busy
    /\ hist.takes < MaxTakes
    /\ keysCh[priority] # <<>>
    /\ wk' = [batch |-> Head(keysCh[priority]), priority |-> priority, busy |-> TRUE]
    /\ keysCh' = [keysCh EXCEPT ![priority] = Tail(@)]
    /\ hist' = [hist EXCEPT !.takes = @ + 1]
    /\ UNCHANGED <<kv, lCache, rd, tx, maxTs, pool, rp, sk, cl>>

\* case <-baseTick.C: batch := ir.priorityKeys[0].keysPool.Get()
BatchWorkerBaseTick ==
    /\ ~wk.busy
    /\ hist.takes < MaxTakes
    /\ \E g \in BatchGet(pool[0], hist.fresh) :
          /\ pool' = [pool EXCEPT ![0] = g.rest]
          /\ wk' = [batch |-> g.b, priority |-> 0, busy |-> TRUE]
          /\ hist' = [hist EXCEPT !.fresh = IF g.b.id = @ THEN @ + 1 ELSE @,
                                  !.takes = @ + 1]
    /\ UNCHANGED <<kv, lCache, rd, tx, maxTs, keysCh, rp, sk, cl>>

\* The end of doRollup (or the else branch of the base tick): the batch,
\* emptied, goes back to the pool of its priority.
BatchWorkerDone ==
    /\ wk.busy
    /\ pool' = [pool EXCEPT ![wk.priority] = @ \cup {Batch(wk.batch.id, <<>>)}]
    /\ wk' = IdleWorker
    /\ UNCHANGED <<kv, lCache, rd, tx, maxTs, keysCh, rp, sk, hist, cl>>

\* The sync.Pool drops a pooled buffer.
BatchPoolEvict(priority) ==
    /\ \E b \in pool[priority] : pool' = [pool EXCEPT ![priority] = @ \ {b}]
    /\ UNCHANGED <<kv, lCache, rd, tx, maxTs, keysCh, rp, sk, wk, hist, cl>>

NextBatch ==
    \/ \E c \in Callers, key \in BatchKeys, priority \in Priorities :
          BatchCallerGet(c, key, priority)
    \/ \E c \in Callers : BatchCallerPut(c)
    \/ \E priority \in Priorities : BatchWorkerRecv(priority)
    \/ BatchWorkerBaseTick
    \/ BatchWorkerDone
    \/ \E priority \in Priorities : BatchPoolEvict(priority)

SpecBatch == InitBatch /\ [][NextBatch]_vars

\* Who holds which batch: one record per place and batch held there.
Holding(place, at, b) == [place |-> place, at |-> at, batch |-> b]

BatchHoldings ==
    UNION {{Holding("pool", p, b) : b \in pool[p]} : p \in Priorities}
    \cup UNION {{Holding("chan", <<p, i>>, keysCh[p][i]) : i \in DOMAIN keysCh[p]} : p \in Priorities}
    \cup {Holding("caller", c, rd[c].batch) : c \in {x \in Callers : rd[x].pc = "got"}}
    \cup (IF wk.busy THEN {Holding("worker", 0, wk.batch)} ELSE {})

FillsOnFull(c) ==
    /\ rd[c].pc = "got"
    /\ Len(rd[c].batch.keys) = BatchSize - 1
    /\ Len(keysCh[rd[c].priority]) = ChanCap

\* C16: addKeyToBatch never blocks: a caller past its Get can always finish,
\* and when its key fills the batch while the channel holds 16 batches the
\* call returns with the channel unchanged and the buffer back in the pool
\* with length 0, its 16 keys in no batch.
C16_DropOnFull ==
    [][\A c \in Callers :
          /\ rd[c].pc = "got" => ENABLED BatchCallerPut(c)
          /\ (FillsOnFull(c) /\ rd'[c].pc = "idle") =>
                LET p == rd[c].priority
                IN /\ keysCh' = keysCh
                   /\ pool'[p] = pool[p] \cup {Batch(rd[c].batch.id, <<>>)}
                   /\ pool'[1 - p] = pool[1 - p]
                   /\ rd'[c].dropped]_vars

\* A call has dropped its batch: the channel is still full and the buffer
\* rests empty in the pool.
C16_Witness ==
    \E c \in Callers :
       /\ rd[c].pc = "idle" /\ rd[c].dropped
       /\ Len(keysCh[rd[c].priority]) = ChanCap
       /\ \E b \in InitPooled(rd[c].priority, ChanCap) :
             Batch(b.id, <<>>) \in pool[rd[c].priority]

----------------------------------------------------------------------------
(* The handover of the worker's skiplist (SpecRollup) *)

\* A step of the base tick: the tick count moves.
IsBaseTick == wk'.ticks # wk.ticks

\* C17: handover runs on every 4th base tick and on no other; it hands no
\* empty skiplist to the store; a non-empty one it tries to hand over at most
\* 3600 times, the store receiving it at the first success and nothing when
\* all fail; and after the 4th tick the worker holds a new empty skiplist.
C17_Handover ==
    [][IsBaseTick =>
         IF wk'.ticks = 0
         THEN /\ wk'.sl = {}
              /\ wk'.last = {} => (wk'.attempts = 0 /\ kv' = kv)
              /\ wk'.last # {} =>
                    /\ wk'.attempts \in 1..HandoverRetries
                    /\ kv' \in {kv, HandoverSkiplist(kv, wk'.last)}
                    /\ wk'.attempts < HandoverRetries => kv' = HandoverSkiplist(kv, wk'.last)
         ELSE /\ wk'.attempts = 0
              /\ kv' = kv
              /\ wk.sl \subseteq wk'.sl]_vars

\* The 4th base tick found a non-empty skiplist, every attempt failed, and
\* the worker holds an empty skiplist while the store lacks the entries.
C17_Witness ==
    /\ wk.ticks = 0 /\ wk.last # {}
    /\ wk.attempts = HandoverRetries
    /\ wk.sl = {}
    /\ ~(wk.last \subseteq kv)

----------------------------------------------------------------------------
(* SpecDrain: the worker under the scheduling of its select, with one full *)
(* batch queued on each channel, callers adding fewer keys than fill a     *)
(* batch, the pools dropping buffers, and the closer; all within one       *)
(* second of the clock.                                                    *)

InitDrain ==
    /\ kv = Range(ItemsOf(<<"D", "C">>, KeyA, 1, 1))
              \cup Range(ItemsOf(<<"C">>, KeyB, 1, 1))
    /\ pool = [p \in Priorities |-> EmptyBag]
    /\ keysCh = [p \in Priorities |-> <<FullBatchOf(KeyB)>>]
    /\ wk = [NoWk EXCEPT !.now = StartClock]
    /\ hist = [adds |-> 0, log |-> NoLog]
    /\ lCache = EmptyCache /\ rd = <<>> /\ tx = <<>> /\ maxTs = 0
    /\ rp = NoRp /\ sk = NoSk
    /\ cl = NoCl

NextDrain ==
    \/ \E key \in RollupKeys, priority \in Priorities : CallerAddKey(key, priority)
    \/ \E priority \in Priorities : PoolEvict(priority)
    \/ CloserClose
    \/ WorkerReturn
    \/ CleanupTick
    \/ RecvP0
    \/ RecvP1
    \/ BaseTick

\* The select of the worker takes one of its ready cases at random, so a
\* case that stays ready is taken in the end: the base tick, which is ready
\* every 500 ms, and the closed closer, which stays ready once closed.
SpecDrain ==
    InitDrain /\ [][NextDrain]_vars /\ WF_vars(BaseTick) /\ WF_vars(WorkerReturn)

\* key rests in a partial batch of the priority-0 pool
InPartialBatch(key) == \E b \in BagToSet(pool[0]) : key \in Range(b)

\* rollupKey has been called on key
RolledUp(key) == hist.log[key].last # -1

\* C18: while the closer stays open, a key added to a partial priority-0
\* batch is eventually rolled up by a base tick.
C18_PartialBatchDrained ==
    ([]~wk.closed) => \A key \in RollupKeys : InPartialBatch(key) ~> RolledUp(key)

IsPrefix(s, t) == Len(s) <= Len(t) /\ SubSeq(t, 1, Len(s)) = s

\* C19: once the closer is closed the worker returns in the end, whatever is
\* queued and whichever tickers fire; it returns once, and after that no
\* rollupKey and no handover happens and nothing is taken from the channels
\* (of the worker's state only the clock it reads moves).
C19_ReturnsOnClose ==
    /\ wk.closed ~> wk.returned
    /\ [][wk.returned =>
            /\ wk' = [wk EXCEPT !.now = wk'.now]
            /\ kv' = kv
            /\ hist'.log = hist.log
            /\ \A p \in Priorities : IsPrefix(keysCh[p], keysCh'[p])]_vars

\* The worker has returned with a batch still queued and a partial batch
\* still pooled.
C19_Witness ==
    /\ wk.returned
    /\ \E p \in Priorities : keysCh[p] # <<>>
    /\ \E b \in BagToSet(pool[0]) : b # <<>>

----------------------------------------------------------------------------
(* The stop point of ReadPostingList (SpecRead) *)

\* The read stops at item i or right after it.
StopsAt(items, key, i) ==
    \/ items[i].key # key
    \/ items[i].deleted
    \/ items[i].meta \in {"COMPLETE", "EMPTY"}
    \/ items[i].discard

\* The first item the read stops at; past the end when there is none.
StopPoint(items, key) ==
    LET S == {i \in DOMAIN items : StopsAt(items, key, i)}
    IN IF S = {} THEN Len(items) + 1 ELSE CHOOSE i \in S : \A j \in S : i <= j

\* The item at the stop point is a live snapshot of the key.
SnapshotAt(items, key, i) ==
    /\ i \in DOMAIN items
    /\ items[i].key = key /\ ~items[i].deleted
    /\ items[i].meta \in {"COMPLETE", "EMPTY"}

\* The DELTA items newer than the stop point: those before it, and the item
\* the read stops after, a live delta carrying discard-earlier-versions.
DeltasRead(items, key) ==
    LET stop == StopPoint(items, key)
    IN {i \in DOMAIN items :
          /\ items[i].meta = "DELTA" /\ items[i].key = key /\ ~items[i].deleted
          /\ i <= stop}

HighestOf(vs) == IF vs = {} THEN 0 ELSE CHOOSE v \in vs : \A w \in vs : w <= v

\* C20: a ReadPostingList that returns a list stopped at the first item that
\* is a COMPLETE or EMPTY (min_ts = its version), is deleted, carries
\* discard-earlier-versions, or is of another key, and left the iterator
\* there; its mutation map holds exactly the DELTA items newer than the stop
\* point, each under its own version and stamped with it; max_ts is the
\* highest version it visited, a deleted item's included.
C20_OneSnapshot ==
    [][(ReadStepTaken /\ rp'.called /\ rp'.res.err = NoErr) =>
          LET items == rp.items
              key == rp.key
              stop == StopPoint(items, key)
              ds == DeltasRead(items, key)
              l == rp'.res.l
          IN /\ rp'.pos = stop
             /\ l.minTs = IF SnapshotAt(items, key, stop) THEN items[stop].version ELSE 0
             /\ DOMAIN l.mutationMap = {items[i].version : i \in ds}
             /\ \A i \in ds :
                   l.mutationMap[items[i].version] =
                      [items[i].val.pl EXCEPT !.commitTs = items[i].version]
             /\ l.maxTs = HighestOf({items[i].version :
                                       i \in {j \in DOMAIN items :
                                                j <= stop /\ items[j].key = key}})]_vars

\* A delta above a COMPLETE with an older delta below it was read: the newer
\* delta alone is in the map, min_ts is the version of the COMPLETE, max_ts that
\* of the newest delta, and the iterator rests on the COMPLETE.
C20_Witness ==
    /\ rp.called /\ rp.res.err = NoErr
    /\ Len(rp.items) = 3
    /\ rp.items[1].meta = "DELTA" /\ rp.items[2].meta = "COMPLETE"
    /\ rp.items[3].meta = "DELTA" /\ rp.items[3].key = rp.key
    /\ rp.pos = 2
    /\ DOMAIN rp.res.l.mutationMap = {rp.items[1].version}
    /\ rp.res.l.minTs = rp.items[2].version
    /\ rp.res.l.maxTs = rp.items[1].version

----------------------------------------------------------------------------
(* SpecFail: the worker of SpecRollup over a store whose KeyB fails to    *)
(* decode, so that rollupKey fails on the first key of the initial batches *)

InitFail ==
    /\ kv = Range(ItemsOf(<<"D", "C">>, KeyA, 1, 1))
              \cup Range(ItemsOf(<<"Cbad">>, KeyB, 1, 1))
    /\ \E p0 \in RollupPools, p1 \in RollupPools :
          pool = [p \in Priorities |-> IF p = 0 THEN p0 ELSE p1]
    /\ keysCh = NoChan
    /\ wk = [NoWk EXCEPT !.now = StartClock]
    /\ hist = [adds |-> 0, log |-> NoLog]
    /\ lCache = EmptyCache /\ rd = <<>> /\ tx = <<>> /\ maxTs = 0
    /\ rp = NoRp /\ sk = NoSk
    /\ cl = NoCl

SpecFail == InitFail /\ [][NextRollup]_vars

\* The step called rollupKey on key and the call failed.
FailedNow(key) ==
    /\ hist'.log[key] # hist.log[key]
    /\ hist'.log[key].err # NoErr

\* The batches a worker step can take at priority p: the head of the channel
\* and, for the base tick, a batch of the priority-0 pool.
Takable(p) ==
    (IF keysCh[p] # <<>> THEN {Head(keysCh[p])} ELSE {})
    \cup (IF p = 0 THEN BagToSet(pool[0]) ELSE {})

\* Every key of batch b was dealt with by the step: rollupKey was called on
\* it, or the dedup map held its hash inside the window, from before the
\* step or from an earlier key of the batch.
Processed(b) ==
    \A i \in DOMAIN b :
       LET h == MemHash(b[i])
       IN /\ h \in DOMAIN wk'.m
          /\ \/ hist'.log[b[i]].last = wk.now
             \/ DedupSkip(UnixNow(wk.now), MapGet(wk.m, h))
             \/ \E j \in 1..(i - 1) : MemHash(b[j]) = h

\* A failing rollupKey is contained: the other keys of its batch are dealt
\* with, an emptied buffer is back in the pool of the priority, the worker
\* stays in its loop, and the key's dedup entry is set to the current time.
ErrorContained(key) ==
    \E p \in Priorities : \E b \in Takable(p) :
       /\ key \in Range(b)
       /\ Processed(b)
       /\ BagIn(<<>>, pool'[p])
       /\ ~wk'.returned /\ ENABLED BaseTick
       /\ MapGet(wk'.m, MemHash(key)) = UnixNow(wk.now)

\* A key whose last rollupKey failed is not rolled up again by the worker
\* inside the dedup window.
NoEarlyRetry(key) ==
    (hist'.log[key] # hist.log[key] /\ hist.log[key].err # NoErr)
       => wk.now - hist.log[key].last >= DedupSeconds

\* The part of C21 that concerns the batch of the failing key alone.
C21_ErrorContained ==
    [][\A key \in DOMAIN hist.log : FailedNow(key) => ErrorContained(key)]_vars

\* C21: a rollupKey error on one key does not stop the worker: the rest of
\* the batch is processed, the batch goes back to its pool emptied, the
\* worker goes on, the failed key's dedup entry is set, and the worker does
\* not retry the key for the next 10 seconds.
C21_ErrorDoesNotStop ==
    [][\A key \in DOMAIN hist.log :
          /\ FailedNow(key) => ErrorContained(key)
          /\ NoEarlyRetry(key)]_vars

\* rollupKey failed on KeyB, the first key of a batch of 15, and was called
\* on KeyA, the key after it, in the same step.
C21_FailureSeen ==
    /\ hist.log[KeyB].err # NoErr
    /\ hist.log[KeyA].last = hist.log[KeyB].last
    /\ hist.log[KeyA].err = NoErr
    /\ MapGet(wk.m, MemHash(KeyB)) = hist.log[KeyB].last
    /\ ~wk.returned

----------------------------------------------------------------------------
(* The deferred enqueue of ReadPostingList on its error returns (SpecRead) *)

LoopErrors == {"SchemaError", "UnexpectedMeta", "DecodeError"}

\* C22: a ReadPostingList that fails inside its loop (SCHEMA item, unexpected
\* meta, payload of a COMPLETE or DELTA that does not decode) after consuming
\* n >= 1 DELTA items returns no list and still adds the key exactly once to
\* a batch, of priority 1 when n <= 500 and of priority 0 when n > 500; n is
\* the number of items before the failing one.
C22_EnqueueOnError ==
    [][(ReadStepTaken /\ rp'.res.err \in LoopErrors /\ rp'.res.deltaCount >= 1)
        => LET n == rp'.res.deltaCount IN
           /\ rp'.res.l.isNil
           /\ rp'.called => (n = rp'.pos - 1 /\ rp'.pos \in DOMAIN rp.items)
           /\ (n <= 500) => (AddedOnce(1, rp.key) /\ Untouched(0))
           /\ (n > 500) => (AddedOnce(0, rp.key) /\ Untouched(1))]_vars

\* 501 deltas above a SCHEMA item were read: the read failed and the key
\* rests in a batch of priority 0 all the same.
C22_Witness ==
    /\ rp.called
    /\ rp.res.err = "SchemaError"
    /\ rp.res.l.isNil
    /\ rp.res.deltaCount = 501
    /\ rp.items[502].meta = "SCHEMA"
    /\ KeyOcc(0, rp.key) = 1
    /\ KeyOcc(1, rp.key) = 0

====
